---- MODULE Spec2Model ----
(***************************************************************************)
(* A model of the BitScope command/response engine of package bitscope:    *)
(* the hex encoders hex1..hex4, the three submit functions call, callWait  *)
(* and callCr, and the operations of Scope that build commands and submit  *)
(* them over the serial transport.                                         *)
(*                                                                         *)
(* A byte is a one-character string; a []byte is a sequence of bytes.  The *)
(* source indexes slices from 0, sequences are indexed from 1: At and Put  *)
(* take the source's 0-based index.  A Go uint (64 bits) is a sequence of  *)
(* 16 nibbles, least significant first, so that the masks and shifts of    *)
(* the encoders keep their width.                                          *)
(***************************************************************************)
EXTENDS Integers, Sequences, FiniteSets, TLC

VARIABLES
    hn,      \* hex harness: the value handed to the encoder
    hb,      \* hex harness: the buffer before encoding
    hoff,    \* hex harness: the offset argument
    hw,      \* hex harness: which encoder (1..4)
    hout,    \* hex harness: the buffer after encoding
    hpc,     \* hex harness: "in" before the encoder ran, "done" after
    op,      \* the operation of Scope in progress, "none" between operations
    args,    \* its arguments
    todo,    \* the submit calls it has still to make, in order
    sent,    \* the buffers it has handed to tty.Write so far, in order
    out,     \* what the last finished operation returned
    pc,      \* position in the submit function: "idle", "write", "read", "ret"
    fn,      \* the submit function in progress: "call", "callWait", "callCr"
    cmd,     \* its argument b
    cr,      \* its argument cr (callCr)
    maxBytes,\* the third argument written at its call site
    cnt,     \* its local n
    err,     \* its local err; with res, what it returns at "ret"
    res,     \* the response it returns
    rx,      \* transport: bytes that arrived and were not read yet
    pending, \* instrument: bytes it has still to send
    wr,      \* history: how the write of this call ended
    nwr,     \* history: writes issued by this call
    nreads,  \* history: reads issued by this call (counted up to MaxReads)
    nfail,   \* history: reads of this call that returned an error
    delivered, \* history: the chunks the successful reads of this call delivered
    avail,   \* history: the bytes available when this call last read
    chunk,   \* history: the bytes the last read of this call delivered
    scen,    \* history: how many reads of this call matched ScenarioChunks so far
    prev,    \* history: the transport event before the last one
    last,    \* history: the last transport event
    tty,     \* the serial handle: "closed" or "open"
    ID,      \* Scope.ID
    Model,   \* Scope.Model
    trigSrc, \* Scope.trigSrc
    wasReset,\* history: Reset was called on this Scope
    lastSrc, \* history: the src of the latest Trigger call, <<>> if none
    inst     \* instrument: the identity it answers '?' with

hexvars == <<hn, hb, hoff, hw, hout, hpc>>

opvars == <<op, args, todo, sent, out>>

callvars == <<pc, fn, cmd, cr, maxBytes, cnt, err, res>>

ttyvars == <<rx, pending>>

wrhist == <<wr, nwr>>

rdhist == <<nreads, nfail, delivered, avail, chunk, scen>>

histvars == <<wrhist, rdhist, prev, last>>

scopevars == <<tty, ID, Model, trigSrc, wasReset, lastSrc, inst>>

engvars == <<opvars, callvars, ttyvars, histvars, scopevars>>

vars == <<hexvars, engvars>>

(***************************************************************************)
(* Bytes and slices                                                        *)
(***************************************************************************)
CR == "\r"

Nil == "nil"

At(b, i) == b[i + 1]

Put(b, i, c) == [b EXCEPT ![i + 1] = c]

Min(a, b) == IF a <= b THEN a ELSE b

Take(s, k) == SubSeq(s, 1, k)

Drop(s, k) == SubSeq(s, k + 1, Len(s))

(***************************************************************************)
(* uint arithmetic, nibble-wise                                            *)
(***************************************************************************)
UintNibbles == 16

Uint == [1..UintNibbles -> 0..15]

\* the uint with the given low nibbles (least significant first), zero above
U(low) == [i \in 1..UintNibbles |-> IF i <= Len(low) THEN low[i] ELSE 0]

\* d * 16^k
UDigit(k, d) == [i \in 1..UintNibbles |-> IF i = k + 1 THEN d ELSE 0]

\* a small natural number as a uint
ToUint(x) == [i \in 1..UintNibbles |-> IF i <= 6 THEN (x \div (16 ^ (i - 1))) % 16 ELSE 0]

NibAnd(a, b) ==
    (a % 2) * (b % 2)
    + 2 * (((a \div 2) % 2) * ((b \div 2) % 2))
    + 4 * (((a \div 4) % 2) * ((b \div 4) % 2))
    + 8 * (((a \div 8) % 2) * ((b \div 8) % 2))

\* n & m
And(n, m) == [i \in 1..UintNibbles |-> NibAnd(n[i], m[i])]

NibOr(a, b) == a + b - NibAnd(a, b)

\* n | m
Or(n, m) == [i \in 1..UintNibbles |-> NibOr(n[i], m[i])]

\* n >> s, for the shifts the source uses (multiples of 4)
Shr(n, s) ==
    [i \in 1..UintNibbles |->
        IF i + (s \div 4) <= UintNibbles THEN n[i + (s \div 4)] ELSE 0]

\* the masks 0xff, 0xffff, 0xffffff, 0xffffffff and 15
xff == U(<<15, 15>>)

xffff == U(<<15, 15, 15, 15>>)

xffffff == U(<<15, 15, 15, 15, 15, 15>>)

xffffffff == U(<<15, 15, 15, 15, 15, 15, 15, 15>>)

x1a2b == U(<<11, 2, 10, 1>>)

x0f == U(<<15>>)

\* (n >> s) & 15 as an index into h
Idx(n, s) == And(Shr(n, s), x0f)[1]

(***************************************************************************)
(* The hex encoders                                                        *)
(***************************************************************************)
h == <<"0", "1", "2", "3", "4", "5", "6", "7", "8", "9", "a", "b", "c", "d", "e", "f">>

H(i) == h[i + 1]

hex1(n0, b, offset) ==
    LET n  == And(n0, xff)
        b1 == Put(b, offset + 1, H(Idx(n, 0)))
        b2 == Put(b1, offset, H(Idx(n, 4)))
    IN  b2

\* mutant of hex2: the second byte is written one position early, on the separator
hex2_sep(n0, b, offset) ==
    LET n  == And(n0, xffff)
        b1 == Put(b, offset + 1, H(Idx(n, 0)))
        b2 == Put(b1, offset, H(Idx(n, 4)))
        b3 == Put(b2, offset + 3, H(Idx(n, 8)))
        b4 == Put(b3, offset + 2, H(Idx(n, 12)))
    IN  b4

\* mutant of hex2: the two bytes are written high byte first
hex2_swapped(n0, b, offset) ==
    LET n  == And(n0, xffff)
        b1 == Put(b, offset + 1, H(Idx(n, 8)))
        b2 == Put(b1, offset, H(Idx(n, 12)))
        b3 == Put(b2, offset + 4, H(Idx(n, 0)))
        b4 == Put(b3, offset + 3, H(Idx(n, 4)))
    IN  b4

hex2(n0, b, offset) ==
    LET n  == And(n0, xffff)
        b1 == Put(b, offset + 1, H(Idx(n, 0)))
        b2 == Put(b1, offset, H(Idx(n, 4)))
        b3 == Put(b2, offset + 4, H(Idx(n, 8)))
        b4 == Put(b3, offset + 3, H(Idx(n, 12)))
    IN  b4

hex3(n0, b, offset) ==
    LET n  == And(n0, xffffff)
        b1 == Put(b, offset + 1, H(Idx(n, 0)))
        b2 == Put(b1, offset, H(Idx(n, 4)))
        b3 == Put(b2, offset + 4, H(Idx(n, 8)))
        b4 == Put(b3, offset + 3, H(Idx(n, 12)))
        b5 == Put(b4, offset + 7, H(Idx(n, 16)))
        b6 == Put(b5, offset + 6, H(Idx(n, 20)))
    IN  b6

\* mutant of hex4: the value is not masked
hex4_nomask(n0, b, offset) ==
    LET n  == n0
        b1 == Put(b, offset + 1, H(Idx(n, 0)))
        b2 == Put(b1, offset, H(Idx(n, 4)))
        b3 == Put(b2, offset + 4, H(Idx(n, 8)))
        b4 == Put(b3, offset + 3, H(Idx(n, 12)))
        b5 == Put(b4, offset + 7, H(Idx(n, 16)))
        b6 == Put(b5, offset + 6, H(Idx(n, 20)))
        b7 == Put(b6, offset + 10, H(Idx(n, 24)))
        b8 == Put(b7, offset + 9, H(Idx(n, 32)))
    IN  b8

\* the last digit is taken from n>>32, which the mask has cleared
hex4(n0, b, offset) ==
    LET n  == And(n0, xffffffff)
        b1 == Put(b, offset + 1, H(Idx(n, 0)))
        b2 == Put(b1, offset, H(Idx(n, 4)))
        b3 == Put(b2, offset + 4, H(Idx(n, 8)))
        b4 == Put(b3, offset + 3, H(Idx(n, 12)))
        b5 == Put(b4, offset + 7, H(Idx(n, 16)))
        b6 == Put(b5, offset + 6, H(Idx(n, 20)))
        b7 == Put(b6, offset + 10, H(Idx(n, 24)))
        b8 == Put(b7, offset + 9, H(Idx(n, 32)))
    IN  b8

(***************************************************************************)
(* Templates and literal commands                                          *)
(***************************************************************************)
T_2e == <<"2","e","@","0","0","z","0","0","s">>

T_22 == <<"2","2","@","0","0","z","0","0","z","0","0","z","0","0","s">>

T_26 == <<"2","6","@","0","0","z","0","0","s">>

T_2a == <<"2","a","@","0","0","z","0","0","s">>

T_14 == <<"1","4","@","0","0","z","0","0","s">>

T_05 == <<"0","5","@","0","0","s">>

T_06 == <<"0","6","@","0","0","s">>

T_32 == <<"3","2","@","0","0","z","0","0","s">>

T_34 == <<"3","4","@","0","0","z","0","0","s">>

T_2c == <<"2","c","@","0","0","z","0","0","s">>

T_1c == <<"1","c","@","0","0","z","0","0","s">>

L_7b == <<"[","7","b","]","@","[","8","0","]","s">>

L_7c == <<"[","7","c","]","@","[","8","0","]","s">>

L_37 == <<"[","3","7","]","@","[","0","1","]","s">>

L_31 == <<"[","3","1","]","@","[","0","0","]","s">>

L_21 == <<"[","2","1","]","@","[","0","0","]","s">>

L_06 == <<"[","0","6","]","@","[","7","f","]","s">>

L_05 == <<"[","0","5","]","@","[","8","0","]","s">>

L_44 == <<"[","4","4","]","@","[","0","0","]","s","[","4","5","]","@","[","0","0","]","s">>

L_68 == <<"[","6","8","]","@","[","f","5","]","s","[","6","9","]","@","[","6","8","]","s">>

L_07 == <<"[","0","7","]","@","[","2","1","]","s">>

L_3a == <<"[","3","a","]","@","[","0","0","]","s","[","3","b","]","@","[","0","0","]","s">>

L_08 == <<"[","0","8","]","@","[","0","0","]","s","[","0","9","]","@","[","0","0","]","s","[","0","a","]","@","[","0","0","]","s">>

L_dump1 ==
    <<"[","3","1","]","@","[","0","0","]","s">> \o
    <<"[","0","8","]","@","[","c","c","]","s","[","0","9","]","@","[","0","0","]","s","[","0","a","]","@","[","0","0","]","s">> \o
    <<"[","1","e","]","@","[","0","0","]","s">> \o
    <<"[","3","0","]","@","[","0","0","]","s">>

L_dump3 ==
    <<"[","1","6","]","@","[","0","1","]","s","[","1","7","]","@","[","0","0","]","s">> \o
    <<"[","1","8","]","@","[","0","1","]","s","[","1","9","]","@","[","0","0","]","s">> \o
    <<"[","1","a","]","@","[","f","f","]","s","[","1","b","]","@","[","f","f","]","s">> \o
    <<">">>

CmdArm == <<">">>

CmdU == <<"U">>

(***************************************************************************)
(* The transport.  tty.Write hands the command to the instrument and       *)
(* returns a count and an error; the instrument answers with a stream of   *)
(* bytes that reach the receive queue rx in pieces (Arrive); tty.Read      *)
(* returns the bytes that are in rx, up to the capacity of the slice it is *)
(* given, or an error.                                                     *)
(***************************************************************************)
\* the slices the three submit functions read into: make([]byte, 256)
callBuf == 256

callWaitBuf == 256

callCrBuf == 256

MaxChunk == 3

MaxStale == 1

MaxBurst == 12

MaxReads == 6

EIO == "EIO"

S11 == <<"a","b",CR,"c","d",CR,CR,"e","f",CR,CR>>

Bulk(k) == [i \in 1..k |-> "x"]

CmdA == <<"A">>

CmdD == <<"D">>

CmdQ == <<"?">>

CmdReset == <<"!">>

\* the identities an instrument may have
Id10 == <<"B","S","0","0","1","0","0","4">>

Id05 == <<"B","S","0","0","0","5","0","1">>

IdOther == <<"B","S","0","0","4","4","0","2">>

Identities == {Id10, Id05, IdOther}

\* the answer to '?': the echo, the 8-character identity and a CR
IdReply == <<"?">> \o inst \o <<CR>>

\* what the instrument may answer to the bytes bb it received
Streams(bb) ==
    IF bb = CmdQ THEN {IdReply}
    ELSE IF bb = CmdA THEN {<<>>, Bulk(1), Bulk(callWaitBuf + 1)}
    ELSE IF bb = CmdD THEN {<<>>, <<CR>>, S11}
    ELSE {<<>>, <<CR>>}

\* a new answer starts only while at most MaxStale bytes of earlier answers
\* are still on their way
Replies(bb) ==
    {s \in Streams(bb) : s = <<>> \/ Len(rx) + Len(pending) <= MaxStale}

ShortCounts(bb) == {k \in {0, Len(bb) - 1} : k >= 0 /\ k < Len(bb)}

\* the outcomes of tty.Write(bb): all written, fewer written, or an error
TtyWrite(bb) ==
    {[n |-> Len(bb), err |-> Nil, resp |-> s] : s \in Replies(bb)}
    \cup UNION {{[n |-> k, err |-> Nil, resp |-> s] : s \in Replies(Take(bb, k))} :
                k \in ShortCounts(bb)}
    \cup {[n |-> 0, err |-> EIO, resp |-> <<>>]}

\* the outcomes of tty.Read(r) with len(r) = cap: the bytes available, at
\* most cap of them (none is a legal result), or an error and no bytes
TtyRead(cap) ==
    {[data |-> Take(rx, Min(Len(rx), cap)), rest |-> Drop(rx, Min(Len(rx), cap)), err |-> Nil],
     [data |-> <<>>, rest |-> rx, err |-> EIO]}

\* an answer longer than MaxBurst is a bulk transfer and arrives in one burst
ArriveSizes ==
    IF Len(pending) > MaxBurst THEN {Len(pending)}
    ELSE 1..Min(Len(pending), MaxChunk)

Arrive ==
    /\ pending # <<>>
    /\ \E k \in ArriveSizes :
        /\ rx' = rx \o Take(pending, k)
        /\ pending' = Drop(pending, k)
    /\ UNCHANGED <<hexvars, scopevars, opvars, callvars, histvars>>

(***************************************************************************)
(* History of the transport calls of the submit function in progress       *)
(***************************************************************************)
EvNone == [k |-> "none", fn |-> "none", wr |-> "none"]

EvRead == [k |-> "R", fn |-> "none", wr |-> "none"]

EvWrite(who, kind) == [k |-> "W", fn |-> who, wr |-> kind]

WrKind(w, bb) ==
    IF w.err # Nil THEN "err" ELSE IF w.n = Len(bb) THEN "full" ELSE "short"

Bump(x) == IF x < MaxReads THEN x + 1 ELSE x

\* the chunking of S11 the reads of a call are compared with
ScenarioChunks == <<<<"a","b",CR>>, <<"c","d",CR>>, <<CR,"e","f">>, <<CR,CR>>>>

CountCR(s) == Cardinality({i \in 1..Len(s) : s[i] = CR})

\* n, err := bs.tty.Write(b)
DoWrite(w) ==
    /\ cnt' = w.n
    /\ pending' = pending \o w.resp
    /\ rx' = rx
    /\ sent' = Append(sent, cmd)
    /\ wr' = WrKind(w, cmd)
    /\ nwr' = nwr + 1
    /\ prev' = last
    /\ last' = EvWrite(fn, WrKind(w, cmd))

\* n, err = bs.tty.Read(r)
DoRead(r) ==
    /\ cnt' = Len(r.data)
    /\ rx' = r.rest
    /\ pending' = pending
    /\ avail' = rx
    /\ nreads' = Bump(nreads)
    /\ nfail' = IF r.err = Nil THEN nfail ELSE Bump(nfail)
    /\ delivered' = IF r.err = Nil THEN delivered \o r.data ELSE delivered
    /\ chunk' = r.data
    /\ scen' = IF /\ r.err = Nil
                  /\ scen >= 0 /\ scen < Len(ScenarioChunks)
                  /\ r.data = ScenarioChunks[scen + 1]
               THEN scen + 1
               ELSE -1
    /\ prev' = last
    /\ last' = EvRead

(***************************************************************************)
(* The submit functions.  Each is two steps: the write, and the read (for  *)
(* callCr the read of one turn of its loop).  The sleep between them       *)
(* changes no state; the bytes that arrive during it are Arrive steps.     *)
(* Printing the response is not modelled.                                  *)
(***************************************************************************)
IncompleteWrite == "Not all bytes were written"

\* mutant of callWrite: a short count ends the call before any read
callWrite_checked ==
    /\ pc = "write" /\ fn = "call"
    /\ \E w \in TtyWrite(cmd) :
        /\ DoWrite(w)
        /\ IF w.err # Nil
           THEN pc' = "ret" /\ res' = <<>> /\ err' = w.err
           ELSE IF w.n # Len(cmd)
           THEN pc' = "ret" /\ res' = <<>> /\ err' = IncompleteWrite
           ELSE pc' = "read" /\ res' = res /\ err' = w.err
    /\ UNCHANGED <<hexvars, scopevars, op, args, todo, out, fn, cmd, cr, maxBytes, rdhist>>

callWrite ==
    /\ pc = "write" /\ fn = "call"
    /\ \E w \in TtyWrite(cmd) :
        /\ DoWrite(w)
        /\ IF w.err # Nil
           THEN pc' = "ret" /\ res' = <<>> /\ err' = w.err
           ELSE pc' = "read" /\ res' = res /\ err' = w.err
    /\ UNCHANGED <<hexvars, scopevars, op, args, todo, out, fn, cmd, cr, maxBytes, rdhist>>

\* mutant of callRead: a read that delivers nothing is repeated
callRead_retry ==
    /\ pc = "read" /\ fn = "call"
    /\ \E r \in TtyRead(callBuf) :
        /\ DoRead(r)
        /\ res' = r.data
        /\ err' = r.err
        /\ pc' = IF r.err = Nil /\ Len(r.data) = 0 THEN "read" ELSE "ret"
    /\ UNCHANGED <<hexvars, scopevars, opvars, fn, cmd, cr, maxBytes, wrhist>>

callRead ==
    /\ pc = "read" /\ fn = "call"
    /\ \E r \in TtyRead(callBuf) :
        /\ DoRead(r)
        /\ res' = r.data
        /\ err' = r.err
        /\ pc' = "ret"
    /\ UNCHANGED <<hexvars, scopevars, opvars, fn, cmd, cr, maxBytes, wrhist>>

callWaitWrite ==
    /\ pc = "write" /\ fn = "callWait"
    /\ \E w \in TtyWrite(cmd) :
        /\ DoWrite(w)
        /\ IF w.err # Nil
           THEN pc' = "ret" /\ res' = <<>> /\ err' = w.err
           ELSE pc' = "read" /\ res' = res /\ err' = w.err
    /\ UNCHANGED <<hexvars, scopevars, op, args, todo, out, fn, cmd, cr, maxBytes, rdhist>>

\* the slice read into has callWaitBuf bytes whatever maxBytes is
callWaitRead ==
    /\ pc = "read" /\ fn = "callWait"
    /\ \E r \in TtyRead(callWaitBuf) :
        /\ DoRead(r)
        /\ res' = r.data
        /\ err' = r.err
        /\ pc' = "ret"
    /\ UNCHANGED <<hexvars, scopevars, opvars, fn, cmd, cr, maxBytes, wrhist>>

callCrWrite ==
    /\ pc = "write" /\ fn = "callCr"
    /\ \E w \in TtyWrite(cmd) :
        /\ DoWrite(w)
        /\ IF w.err # Nil
           THEN pc' = "ret" /\ res' = <<>> /\ err' = w.err
           ELSE IF w.n # Len(cmd)
           THEN pc' = "ret" /\ res' = <<>> /\ err' = IncompleteWrite
           ELSE pc' = "read" /\ res' = res /\ err' = w.err
    /\ UNCHANGED <<hexvars, scopevars, op, args, todo, out, fn, cmd, cr, maxBytes, rdhist>>

\* mutant of callCrRead: the CRs are counted in the newest chunk only
callCrRead_newest ==
    /\ pc = "read" /\ fn = "callCr"
    /\ \E r \in TtyRead(callCrBuf) :
        /\ DoRead(r)
        /\ IF r.err # Nil
           THEN pc' = "ret" /\ res' = res /\ err' = r.err
           ELSE LET acc == IF Len(r.data) > 0 THEN res \o r.data ELSE res
                IN  /\ res' = acc
                    /\ err' = r.err
                    /\ pc' = IF CountCR(r.data) >= cr THEN "ret" ELSE "read"
    /\ UNCHANGED <<hexvars, scopevars, opvars, fn, cmd, cr, maxBytes, wrhist>>

\* mutant of callCrRead: a failed read returns nil, as a failed write does
callCrRead_drop ==
    /\ pc = "read" /\ fn = "callCr"
    /\ \E r \in TtyRead(callCrBuf) :
        /\ DoRead(r)
        /\ IF r.err # Nil
           THEN pc' = "ret" /\ res' = <<>> /\ err' = r.err
           ELSE LET acc == IF Len(r.data) > 0 THEN res \o r.data ELSE res
                IN  /\ res' = acc
                    /\ err' = r.err
                    /\ pc' = IF CountCR(acc) >= cr THEN "ret" ELSE "read"
    /\ UNCHANGED <<hexvars, scopevars, opvars, fn, cmd, cr, maxBytes, wrhist>>

\* mutant of callCrRead: the loop gives up after its third read
callCrRead_deadline ==
    /\ pc = "read" /\ fn = "callCr"
    /\ \E r \in TtyRead(callCrBuf) :
        /\ DoRead(r)
        /\ IF r.err # Nil
           THEN pc' = "ret" /\ res' = res /\ err' = r.err
           ELSE LET acc == IF Len(r.data) > 0 THEN res \o r.data ELSE res
                IN  /\ res' = acc
                    /\ err' = r.err
                    /\ pc' = IF CountCR(acc) >= cr \/ nreads >= 2 THEN "ret" ELSE "read"
    /\ UNCHANGED <<hexvars, scopevars, opvars, fn, cmd, cr, maxBytes, wrhist>>

\* mutant of callCrRead: the new chunk is put in front of the earlier ones
callCrRead_front ==
    /\ pc = "read" /\ fn = "callCr"
    /\ \E r \in TtyRead(callCrBuf) :
        /\ DoRead(r)
        /\ IF r.err # Nil
           THEN pc' = "ret" /\ res' = res /\ err' = r.err
           ELSE LET acc == IF Len(r.data) > 0 THEN r.data \o res ELSE res
                IN  /\ res' = acc
                    /\ err' = r.err
                    /\ pc' = IF CountCR(acc) >= cr THEN "ret" ELSE "read"
    /\ UNCHANGED <<hexvars, scopevars, opvars, fn, cmd, cr, maxBytes, wrhist>>

\* one turn of the loop: read, leave on an error, append, count the CRs of
\* the whole of res, leave when there are cr of them
callCrRead ==
    /\ pc = "read" /\ fn = "callCr"
    /\ \E r \in TtyRead(callCrBuf) :
        /\ DoRead(r)
        /\ IF r.err # Nil
           THEN pc' = "ret" /\ res' = res /\ err' = r.err
           ELSE LET acc == IF Len(r.data) > 0 THEN res \o r.data ELSE res
                IN  /\ res' = acc
                    /\ err' = r.err
                    /\ pc' = IF CountCR(acc) >= cr THEN "ret" ELSE "read"
    /\ UNCHANGED <<hexvars, scopevars, opvars, fn, cmd, cr, maxBytes, wrhist>>

(***************************************************************************)
(* The operations of Scope.  An operation builds its buffers and makes its *)
(* submit calls one after the other; todo holds the calls still to make.   *)
(* The call sites of callCr and callWait write a third argument (256 in    *)
(* Trace, size+256 in Dump) that the functions do not take: it is kept in  *)
(* maxBytes and read by nothing in the functions.                          *)
(***************************************************************************)
MkCall(bb) == [fn |-> "call", b |-> bb, cr |-> 0, max |-> 0]

MkWait(bb, ms, m) == [fn |-> "callWait", b |-> bb, cr |-> 0, max |-> m]

MkCr(bb, c, m) == [fn |-> "callCr", b |-> bb, cr |-> c, max |-> m]

NoResult == [res |-> <<>>, err |-> Nil]

\* entering a submit function
Load(c) ==
    /\ fn' = c.fn
    /\ cmd' = c.b
    /\ cr' = c.cr
    /\ maxBytes' = c.max
    /\ pc' = "write"
    /\ cnt' = 0
    /\ err' = Nil
    /\ res' = <<>>
    /\ wr' = "none"
    /\ nwr' = 0
    /\ nreads' = 0
    /\ nfail' = 0
    /\ delivered' = <<>>
    /\ avail' = <<>>
    /\ chunk' = <<>>
    /\ scen' = 0

\* an operation starts while at most MaxStale bytes of earlier answers are
\* still outstanding
Begin(name, a, calls) ==
    /\ Len(rx) + Len(pending) <= MaxStale
    /\ op' = name
    /\ args' = a
    /\ Load(Head(calls))
    /\ todo' = Tail(calls)
    /\ sent' = <<>>
    /\ out' = NoResult
    /\ UNCHANGED <<hexvars, ttyvars, prev, last>>

\* the submit function returned and the operation makes its next call; what
\* the call returned is dropped
Continue ==
    /\ pc = "ret"
    /\ todo # <<>>
    /\ Load(Head(todo))
    /\ todo' = Tail(todo)
    /\ UNCHANGED <<hexvars, scopevars, op, args, sent, out, ttyvars, prev, last>>

\* strings.TrimSpace
IsSpace(c) == c \in {CR, " ", "\n", "\t"}

RECURSIVE TrimLeft(_)
TrimLeft(s) ==
    IF s # <<>> /\ IsSpace(Head(s)) THEN TrimLeft(Tail(s)) ELSE s

RECURSIVE TrimRight(_)
TrimRight(s) ==
    IF s # <<>> /\ IsSpace(s[Len(s)]) THEN TrimRight(Take(s, Len(s) - 1)) ELSE s

TrimSpace(s) == TrimRight(TrimLeft(s))

\* strings.HasPrefix
HasPrefix(s, p) == Len(s) >= Len(p) /\ Take(s, Len(p)) = p

\* the string Id returns from the (b, err) of its call
IdString(r, e) ==
    IF Len(r) = 0 \/ e # Nil THEN <<>> ELSE TrimSpace(Tail(r))

\* what the operation returns from the (res, err) of its last call
OpResult(name, r, e) ==
    CASE name \in {"Trace", "Dump", "call", "callWait", "callCr"} -> [res |-> r, err |-> e]
      [] name = "Id" -> [res |-> IdString(r, e), err |-> Nil]
      [] name = "Horizontal" -> [res |-> <<>>, err |-> e]
      [] OTHER -> NoResult

Return ==
    /\ pc = "ret"
    /\ todo = <<>>
    /\ op \notin {"Open", "Vertical"}
    /\ out' = OpResult(op, res, err)
    /\ op' = "none"
    /\ args' = <<>>
    /\ sent' = <<>>
    /\ pc' = "idle"
    /\ fn' = "none"
    /\ cmd' = <<>>
    /\ cr' = 0
    /\ maxBytes' = 0
    /\ cnt' = 0
    /\ err' = Nil
    /\ res' = <<>>
    /\ wr' = "none"
    /\ nwr' = 0
    /\ nreads' = 0
    /\ nfail' = 0
    /\ delivered' = <<>>
    /\ avail' = <<>>
    /\ chunk' = <<>>
    /\ scen' = 0
    /\ UNCHANGED <<hexvars, scopevars, todo, ttyvars, prev, last>>

\* the arguments the operations are called with
x28 == ToUint(40)

x3e8 == ToUint(1000)

ArgValues == {x1a2b, [i \in 1..UintNibbles |-> 15]}

\* mutant of HorizontalCmd: the divisor is encoded one position early
HorizontalCmd_off(pre, div) ==
    hex2(div, hex2(pre, T_14 \o T_2e, 3), 11)

HorizontalCmd(pre, div) ==
    hex2(div, hex2(pre, T_14 \o T_2e, 3), 12)

Horizontal(pre, div) ==
    /\ pc = "idle"
    /\ Begin("Horizontal", <<pre, div>>, <<MkCall(HorizontalCmd(pre, div))>>)
    /\ UNCHANGED scopevars

TriggerLogicCmd(level, mask) ==
    hex1(mask, hex1(level, T_05 \o T_06, 3), 9)

TriggerLogic(level, mask) ==
    /\ pc = "idle"
    /\ Begin("TriggerLogic", <<level, mask>>, <<MkCall(TriggerLogicCmd(level, mask))>>)
    /\ UNCHANGED scopevars

TriggerTimingCmd(hoff0, hon, timeout) ==
    hex2(timeout, hex2(hon, hex2(hoff0, T_32 \o T_34 \o T_2c, 3), 12), 21)

TriggerTiming(hoff0, hon, timeout) ==
    /\ pc = "idle"
    /\ Begin("TriggerTiming", <<hoff0, hon, timeout>>,
             <<MkCall(TriggerTimingCmd(hoff0, hon, timeout))>>)
    /\ UNCHANGED scopevars

\* mutant of TraceCalls: 'U' is written before the arm command
TraceCalls_armLate(pre, post, delay) ==
    <<MkCall(L_7b), MkCall(L_7c), MkCall(L_37), MkCall(L_31), MkCall(L_21),
      MkCall(hex4(delay, T_22, 3)), MkCall(hex2(pre, T_26, 3)), MkCall(hex2(post, T_2a, 3)),
      MkCall(L_06), MkCall(L_05), MkCall(L_44), MkCall(L_68), MkCall(L_07), MkCall(L_3a),
      MkCall(L_08),
      MkCall(CmdU), MkCall(CmdArm),
      MkCr(CmdD, 5, 256)>>

TraceCalls(pre, post, delay) ==
    <<MkCall(L_7b), MkCall(L_7c), MkCall(L_37), MkCall(L_31), MkCall(L_21),
      MkCall(hex4(delay, T_22, 3)), MkCall(hex2(pre, T_26, 3)), MkCall(hex2(post, T_2a, 3)),
      MkCall(L_06), MkCall(L_05), MkCall(L_44), MkCall(L_68), MkCall(L_07), MkCall(L_3a),
      MkCall(L_08),
      MkCall(CmdArm), MkCall(CmdU),
      MkCr(CmdD, 5, 256)>>

Trace(pre, post, delay) ==
    /\ pc = "idle"
    /\ Begin("Trace", <<pre, post, delay>>, TraceCalls(pre, post, delay))
    /\ UNCHANGED scopevars

DumpSizes == {1}

DumpCalls(size) ==
    <<MkCall(L_dump1),
      MkCall(hex2(ToUint(size), T_1c, 3)),
      MkCall(L_dump3),
      MkWait(CmdA, 100, size + 256)>>

Dump(size) ==
    /\ pc = "idle"
    /\ Begin("Dump", <<ToUint(size)>>, DumpCalls(size))
    /\ UNCHANGED scopevars

\* a submit function called on its own
SubmitCalls ==
    {MkCall(CmdQ), MkWait(CmdA, 100, callWaitBuf + 1)}
    \cup {MkCr(CmdD, c, 256) : c \in {1, 2, 5}}

Submit(c) ==
    /\ pc = "idle"
    /\ Begin(c.fn, <<>>, <<c>>)
    /\ UNCHANGED scopevars

(***************************************************************************)
(* Open, Close and the operations on the identity.  Open opens the serial  *)
(* device, asks for the identity with Id and keeps the handle only for a   *)
(* supported model.                                                        *)
(***************************************************************************)
P_BS0010 == <<"B","S","0","0","1","0">>

P_BS0005 == <<"B","S","0","0","0","5">>

ENOENT == "ENOENT"

\* errors.New("Unsupported model: " + bs.ID); the identity is in ID
UnsupportedModelID == "Unsupported model: "

Reset ==
    /\ pc = "idle"
    /\ tty = "open"
    /\ Begin("Reset", <<>>, <<MkCall(CmdReset)>>)
    /\ wasReset' = TRUE
    /\ UNCHANGED <<tty, ID, Model, trigSrc, lastSrc, inst>>

Id ==
    /\ pc = "idle"
    /\ tty = "open"
    /\ Begin("Id", <<>>, <<MkCall(CmdQ)>>)
    /\ UNCHANGED scopevars

\* term.Open fails, or it succeeds and Open goes on to bs.Id()
Open ==
    /\ pc = "idle"
    /\ tty = "closed"
    /\ \/ /\ out' = [res |-> <<>>, err |-> ENOENT]
          /\ UNCHANGED <<hexvars, scopevars, op, args, todo, sent, callvars, ttyvars,
                         histvars>>
       \/ /\ Begin("Open", <<>>, <<MkCall(CmdQ)>>)
          /\ tty' = "open"
          /\ ID' = <<>>
          /\ Model' = ""
          /\ trigSrc' = ToUint(0)
          /\ lastSrc' = <<>>
          /\ wasReset' = FALSE
          /\ UNCHANGED inst

\* mutant of OpenModel: the handle stays open whatever the identity is
OpenModel_leak(id) ==
    IF HasPrefix(id, P_BS0010) THEN [model |-> "bs10", tty |-> "open", err |-> Nil]
    ELSE IF HasPrefix(id, P_BS0005) THEN [model |-> "bs05", tty |-> "open", err |-> Nil]
    ELSE [model |-> "", tty |-> "open", err |-> UnsupportedModelID]

\* the model Open selects for the identity, the state it leaves the handle
\* in and the error it returns
OpenModel(id) ==
    IF HasPrefix(id, P_BS0010) THEN [model |-> "bs10", tty |-> "open", err |-> Nil]
    ELSE IF HasPrefix(id, P_BS0005) THEN [model |-> "bs05", tty |-> "open", err |-> Nil]
    ELSE [model |-> "", tty |-> "closed", err |-> UnsupportedModelID]

\* the operation is over: its frame and the history of its calls are cleared
Unload ==
    /\ op' = "none"
    /\ args' = <<>>
    /\ sent' = <<>>
    /\ pc' = "idle"
    /\ fn' = "none"
    /\ cmd' = <<>>
    /\ cr' = 0
    /\ maxBytes' = 0
    /\ cnt' = 0
    /\ err' = Nil
    /\ res' = <<>>
    /\ wr' = "none"
    /\ nwr' = 0
    /\ nreads' = 0
    /\ nfail' = 0
    /\ delivered' = <<>>
    /\ avail' = <<>>
    /\ chunk' = <<>>
    /\ scen' = 0
    /\ UNCHANGED <<hexvars, todo, ttyvars, prev, last>>

\* the rest of Open, from the return of bs.Id()
OpenReturn ==
    /\ pc = "ret"
    /\ todo = <<>>
    /\ op = "Open"
    /\ ID' = IdString(res, err)
    /\ Model' = OpenModel(IdString(res, err)).model
    /\ tty' = OpenModel(IdString(res, err)).tty
    /\ out' = [res |-> <<>>, err |-> OpenModel(IdString(res, err)).err]
    /\ Unload
    /\ UNCHANGED <<trigSrc, wasReset, lastSrc, inst>>

\* bs.tty.Close(); the caller drops the Scope
Close ==
    /\ pc = "idle"
    /\ tty = "open"
    /\ tty' = "closed"
    /\ ID' = <<>>
    /\ Model' = ""
    /\ trigSrc' = ToUint(0)
    /\ lastSrc' = <<>>
    /\ wasReset' = FALSE
    /\ out' = NoResult
    /\ UNCHANGED <<hexvars, inst, op, args, todo, sent, callvars, ttyvars, histvars>>

(***************************************************************************)
(* The analog trigger                                                      *)
(***************************************************************************)
T_68 == <<"6","8","@","0","0","z","0","0","s">>

T_07 == <<"0","7","@","0","0","s">>

RuneA == ToUint(97)

RuneB == ToUint(98)

x20 == ToUint(32)

x10 == ToUint(16)

TriggerCmd(level) == hex2(level, T_68, 3)

Trigger(src, level) ==
    /\ pc = "idle"
    /\ trigSrc' = src
    /\ lastSrc' = src
    /\ Begin("Trigger", <<src, level>>, <<MkCall(TriggerCmd(level))>>)
    /\ UNCHANGED <<tty, ID, Model, wasReset, inst>>

\* mutant of TriggerModeCmd: the trigger source is not looked at
TriggerModeCmd_nosrc(mod, edge, comp, src) ==
    LET m0 == ToUint(0)
        m1 == IF mod THEN Or(m0, x20) ELSE m0
        m2 == IF edge THEN Or(m1, x10) ELSE m1
        m3 == IF comp THEN Or(m2, ToUint(1)) ELSE m2
    IN  hex1(m3, T_07, 3)

\* src is bs.trigSrc
TriggerModeCmd(mod, edge, comp, src) ==
    LET m0 == ToUint(0)
        m1 == IF mod THEN Or(m0, x20) ELSE m0
        m2 == IF edge THEN Or(m1, x10) ELSE m1
        m3 == IF comp THEN Or(m2, ToUint(1)) ELSE m2
        m4 == IF src = RuneB THEN Or(m3, ToUint(4)) ELSE m3
    IN  hex1(m4, T_07, 3)

TriggerMode(mod, edge, comp) ==
    /\ pc = "idle"
    /\ Begin("TriggerMode", <<mod, edge, comp>>,
             <<MkCall(TriggerModeCmd(mod, edge, comp, trigSrc))>>)
    /\ UNCHANGED scopevars

(***************************************************************************)
(* Vertical.  The range is a decimal number with an optional unit, v or    *)
(* mv.  ParseFloat is modelled for the decimal syntax without exponent and *)
(* with at most three digits after the point, and for nan and inf; the     *)
(* value is kept in microvolts.  The ranges drawn below are exact as       *)
(* float32, so the rounding of ParseFloat(rng, 32) changes none of them.   *)
(***************************************************************************)
UpperCase ==
    <<"A","B","C","D","E","F","G","H","I","J","K","L","M",
      "N","O","P","Q","R","S","T","U","V","W","X","Y","Z">>

LowerCase ==
    <<"a","b","c","d","e","f","g","h","i","j","k","l","m",
      "n","o","p","q","r","s","t","u","v","w","x","y","z">>

\* strings.ToLower
ToLower(s) ==
    [i \in 1..Len(s) |->
        IF \E k \in 1..Len(UpperCase) : UpperCase[k] = s[i]
        THEN LowerCase[CHOOSE k \in 1..Len(UpperCase) : UpperCase[k] = s[i]]
        ELSE s[i]]

\* strings.HasSuffix
HasSuffix(s, suf) == Len(s) >= Len(suf) /\ Drop(s, Len(s) - Len(suf)) = suf

Digits == {"0","1","2","3","4","5","6","7","8","9"}

AllDigits(s) == \A i \in 1..Len(s) : s[i] \in Digits

RECURSIVE Decimal(_)
Decimal(s) ==
    IF s = <<>> THEN 0
    ELSE Decimal(Take(s, Len(s) - 1)) * 10 + (CHOOSE d \in 0..9 : H(d) = s[Len(s)])

\* thousandths of the unsigned decimal s; -1 when s is not one
Thousandths(s) ==
    LET dots == {i \in 1..Len(s) : s[i] = "."}
        dot  == CHOOSE i \in dots : TRUE
        ip   == IF dots = {} THEN s ELSE Take(s, dot - 1)
        fp   == IF dots = {} THEN <<>> ELSE Drop(s, dot)
    IN  IF /\ Cardinality(dots) <= 1
           /\ AllDigits(ip) /\ AllDigits(fp)
           /\ Len(ip) + Len(fp) > 0
           /\ Len(fp) <= 3
        THEN Decimal(ip) * 1000 + Decimal(Take(fp \o <<"0","0","0">>, 3))
        ELSE -1

S_nan == <<"n","a","n">>

S_inf == <<"i","n","f">>

S_infinity == <<"i","n","f","i","n","i","t","y">>

\* v, _ := strconv.ParseFloat(rng, 32) of a lower-case string: the value in
\* thousandths; a string that is no number gives 0 (the error is dropped)
ParseFloat(s) ==
    LET signed == s # <<>> /\ Head(s) \in {"+", "-"}
        neg    == s # <<>> /\ Head(s) = "-"
        body   == IF signed THEN Tail(s) ELSE s
    IN  IF s = S_nan
        THEN [nan |-> TRUE, inf |-> 0, val |-> 0]
        ELSE IF body \in {S_inf, S_infinity}
        THEN [nan |-> FALSE, inf |-> IF neg THEN -1 ELSE 1, val |-> 0]
        ELSE IF Thousandths(body) < 0
        THEN [nan |-> FALSE, inf |-> 0, val |-> 0]
        ELSE [nan |-> FALSE, inf |-> 0,
              val |-> IF neg THEN 0 - Thousandths(body) ELSE Thousandths(body)]

\* the range in microvolts: v, or v / 1000.0 for a range in mv
RangeValue(rng) ==
    LET r0 == ToLower(rng)
        r1 == IF HasSuffix(r0, <<"v">>) THEN Take(r0, Len(r0) - 1) ELSE r0
        mv == HasSuffix(r1, <<"m">>)
        r2 == IF mv THEN Take(r1, Len(r1) - 1) ELSE r1
        v  == ParseFloat(r2)
    IN  [nan |-> v.nan, inf |-> v.inf, val |-> IF mv THEN v.val ELSE v.val * 1000]

\* mutant of LessEq: v < volts
LessEq_strict(v, micro) ==
    /\ ~v.nan
    /\ v.inf # 1
    /\ (v.inf = -1 \/ v.val < micro)

\* v <= volts, with volts in microvolts; false for NaN
LessEq(v, micro) ==
    /\ ~v.nan
    /\ v.inf # 1
    /\ (v.inf = -1 \/ v.val <= micro)

V_64_54_65 == <<"6","4","@","5","4","z","6","5","s">>

V_66_96_6c == <<"6","6","@","9","6","x","6","c","s">>

V_64_47_61 == <<"6","4","@","4","7","z","6","1","s">>

V_66_a2_70 == <<"6","6","@","a","2","z","7","0","s">>

V_64_86_50 == <<"6","4","@","8","6","z","5","0","s">>

V_66_64_81 == <<"6","6","@","6","4","z","8","1","s">>

V_64_a7_44 == <<"6","4","@","a","7","z","4","4","s">>

V_66_42_8d == <<"6","6","@","4","2","z","8","d","s">>

V_64_28_1c == <<"6","4","@","2","8","z","1","c","s">>

V_66_c1_b5 == <<"6","6","@","c","1","z","b","5","s">>

V_64_d6_65 == <<"6","4","@","d","6","z","6","5","s">>

V_66_bc_69 == <<"6","6","@","b","c","z","6","9","s">>

V_64_62_52 == <<"6","4","@","6","2","z","5","2","s">>

V_66_3f_7d == <<"6","6","@","3","f","z","7","d","s">>

V_64_68_44 == <<"6","4","@","6","8","z","4","4","s">>

V_66_ff_8a == <<"6","6","@","f","f","z","8","a","s">>

V_64_6a_12 == <<"6","4","@","6","a","z","1","2","s">>

V_66_8c_ba == <<"6","6","@","8","c","z","b","a","s">>

UnsupportedRange == "Unsupported vertical range"

UnsupportedModel == "Unsupported model"

\* the command Vertical builds, or the error it returns
VerticalCmd(model, rng) ==
    LET v == RangeValue(rng)
        e(x) == [cmd |-> <<>>, err |-> x]
        c(a, b) == [cmd |-> a \o b, err |-> Nil]
    IN  IF model = "bs10" THEN
            IF LessEq(v, 520000) THEN c(V_64_54_65, V_66_96_6c)
            ELSE IF LessEq(v, 1100000) THEN c(V_64_47_61, V_66_a2_70)
            ELSE IF LessEq(v, 3500000) THEN c(V_64_86_50, V_66_64_81)
            ELSE IF LessEq(v, 5200000) THEN c(V_64_a7_44, V_66_42_8d)
            ELSE IF LessEq(v, 11000000) THEN c(V_64_28_1c, V_66_c1_b5)
            ELSE e(UnsupportedRange)
        ELSE IF model = "bs05" THEN
            IF LessEq(v, 1100000) THEN c(V_64_d6_65, V_66_bc_69)
            ELSE IF LessEq(v, 3500000) THEN c(V_64_62_52, V_66_3f_7d)
            ELSE IF LessEq(v, 5200000) THEN c(V_64_68_44, V_66_ff_8a)
            ELSE IF LessEq(v, 11000000) THEN c(V_64_6a_12, V_66_8c_ba)
            ELSE e(UnsupportedRange)
        ELSE e(UnsupportedModel)

\* Vertical returns before any call, or makes its one call
Vertical(rng) ==
    /\ pc = "idle"
    /\ IF VerticalCmd(Model, rng).err # Nil
       THEN /\ op' = "Vertical"
            /\ args' = <<rng>>
            /\ pc' = "ret"
            /\ out' = NoResult
            /\ UNCHANGED <<hexvars, todo, sent, fn, cmd, cr, maxBytes, cnt, err, res,
                           ttyvars, histvars>>
       ELSE Begin("Vertical", <<rng>>, <<MkCall(VerticalCmd(Model, rng).cmd)>>)
    /\ UNCHANGED scopevars

\* return errors.New(...) before the call, return nil after it
VerticalReturn ==
    /\ pc = "ret"
    /\ todo = <<>>
    /\ op = "Vertical"
    /\ out' = [res |-> <<>>, err |-> VerticalCmd(Model, args[1]).err]
    /\ Unload
    /\ UNCHANGED scopevars

\* the caller assigns the exported field Model
SetModel(m) ==
    /\ pc = "idle"
    /\ Model' = m
    /\ UNCHANGED <<hexvars, opvars, callvars, ttyvars, histvars,
                   tty, ID, trigSrc, wasReset, lastSrc, inst>>

(***************************************************************************)
(* The specification of the engine                                         *)
(***************************************************************************)
HexOff ==
    /\ hn = ToUint(0)
    /\ hb = <<>>
    /\ hoff = 0
    /\ hw = 0
    /\ hout = <<>>
    /\ hpc = "off"

EngInit ==
    /\ op = "none"
    /\ args = <<>>
    /\ todo = <<>>
    /\ sent = <<>>
    /\ out = NoResult
    /\ pc = "idle"
    /\ fn = "none"
    /\ cmd = <<>>
    /\ cr = 0
    /\ maxBytes = 0
    /\ cnt = 0
    /\ err = Nil
    /\ res = <<>>
    /\ rx = <<>>
    /\ pending = <<>>
    /\ wr = "none"
    /\ nwr = 0
    /\ nreads = 0
    /\ nfail = 0
    /\ delivered = <<>>
    /\ avail = <<>>
    /\ chunk = <<>>
    /\ scen = 0
    /\ prev = EvNone
    /\ last = EvNone

\* a Scope that Open returned for a BS0010
ScopeReady ==
    /\ tty = "open"
    /\ ID = Id10
    /\ Model = "bs10"
    /\ trigSrc = ToUint(0)
    /\ lastSrc = <<>>
    /\ wasReset = FALSE
    /\ inst = Id10

Init == HexOff /\ EngInit /\ ScopeReady

Next ==
    \/ \E pre \in ArgValues, div \in ArgValues : Horizontal(pre, div)
    \/ \E level \in ArgValues, mask \in ArgValues : TriggerLogic(level, mask)
    \/ \E hoff0 \in ArgValues, hon \in ArgValues, timeout \in ArgValues :
          TriggerTiming(hoff0, hon, timeout)
    \/ \E pre \in {x28}, post \in {x3e8}, delay \in {ToUint(0), xffffffff} :
          Trace(pre, post, delay)
    \/ \E size \in DumpSizes : Dump(size)
    \/ \E c \in SubmitCalls : Submit(c)
    \/ callWrite
    \/ callRead
    \/ callWaitWrite
    \/ callWaitRead
    \/ callCrWrite
    \/ callCrRead
    \/ Continue
    \/ Return
    \/ Arrive

Spec == Init /\ [][Next]_vars

(***************************************************************************)
(* callCr on its own.  Its loop has no sleep and no deadline: as long as   *)
(* it has not returned, the next tty.Read is issued, which is what the     *)
(* weak fairness of callCrRead states.  Nothing is assumed of the          *)
(* transport: the bytes on their way may never arrive.                     *)
(***************************************************************************)
CrCalls == {MkCr(CmdD, c, 256) : c \in {1, 2, 5}}

NextCr ==
    \/ \E c \in CrCalls : Submit(c)
    \/ callCrWrite
    \/ callCrRead
    \/ Return
    \/ Arrive

SpecCr == Init /\ [][NextCr]_vars /\ WF_vars(callCrRead)

(***************************************************************************)
(* The trigger and the vertical range, on a Scope of either model whose    *)
(* Model field the caller may overwrite.                                   *)
(***************************************************************************)
ScopeHeld ==
    /\ tty = "open"
    /\ inst \in {Id10, Id05}
    /\ ID = inst
    /\ Model = OpenModel(inst).model
    /\ trigSrc = ToUint(0)
    /\ lastSrc = <<>>
    /\ wasReset = FALSE

InitTrig == HexOff /\ EngInit /\ ScopeHeld

TrigSources == {ToUint(0), RuneA, RuneB}

VerticalRanges ==
    {<<"0",".","5">>,
     <<"2","V">>,
     <<"5","0","0","m","V">>,
     <<"3",".","5","v">>,
     <<"1","1">>,
     <<"1","2">>,
     <<"1","1","0","0","1","m">>,
     <<"n","a","n">>,
     <<>>,
     <<"-","1">>,
     <<"i","n","f">>,
     <<"1","0","x">>}

Models == {"bs10", "bs05", "bs50"}

NextTrig ==
    \/ \E src \in TrigSources, level \in {x1a2b} : Trigger(src, level)
    \/ \E mod \in BOOLEAN, edge \in BOOLEAN, comp \in BOOLEAN : TriggerMode(mod, edge, comp)
    \/ \E rng \in VerticalRanges : Vertical(rng)
    \/ VerticalReturn
    \/ \E m \in Models : SetModel(m)
    \/ \E pre \in {x28}, div \in {x1a2b} : Horizontal(pre, div)
    \/ \E level \in {x1a2b}, mask \in {x1a2b} : TriggerLogic(level, mask)
    \/ callWrite
    \/ callRead
    \/ Return
    \/ Arrive

SpecTrig == InitTrig /\ [][NextTrig]_vars

(***************************************************************************)
(* Opening and identifying: the instrument has any of the identities and   *)
(* the program starts without a Scope.                                     *)
(***************************************************************************)
NoScope ==
    /\ tty = "closed"
    /\ ID = <<>>
    /\ Model = ""
    /\ trigSrc = ToUint(0)
    /\ lastSrc = <<>>
    /\ wasReset = FALSE
    /\ inst \in Identities

InitOpen == HexOff /\ EngInit /\ NoScope

NextOpen ==
    \/ Open
    \/ OpenReturn
    \/ Reset
    \/ Id
    \/ Close
    \/ callWrite
    \/ callRead
    \/ Return
    \/ Arrive

SpecOpen == InitOpen /\ [][NextOpen]_vars

(***************************************************************************)
(* The encoders on their own: every encoder applied to a value, a buffer   *)
(* and an offset drawn from the sets below.                                *)
(***************************************************************************)
C5_Template == <<"2","e","@","0","0","0","0","s">>

HexBuffers == {C5_Template, T_2e, T_22, T_14 \o T_2e}

HexValues ==
    {UDigit(k, d) : k \in 0..(UintNibbles - 1), d \in 1..15}
    \cup {ToUint(0), x1a2b, xff, xffff, xffffff, xffffffff,
          U(<<1, 2, 3, 4, 5, 6, 7, 8, 9, 10, 11, 12, 13, 14, 15, 1>>),
          [i \in 1..UintNibbles |-> 15]}

\* the highest index encoder w writes is offset + 3w - 2; an index past the
\* end of the slice is a run-time panic, so only offsets within it are drawn
HexInit ==
    /\ hn \in HexValues
    /\ hb \in HexBuffers
    /\ hw \in 1..4
    /\ hoff \in 0..(Len(hb) - 1)
    /\ hoff + 3 * hw - 2 <= Len(hb) - 1
    /\ hout = hb
    /\ hpc = "in"

hex1Call ==
    /\ hpc = "in" /\ hw = 1
    /\ hout' = hex1(hn, hb, hoff)
    /\ hpc' = "done"
    /\ UNCHANGED <<hn, hb, hoff, hw, engvars>>

hex2Call ==
    /\ hpc = "in" /\ hw = 2
    /\ hout' = hex2(hn, hb, hoff)
    /\ hpc' = "done"
    /\ UNCHANGED <<hn, hb, hoff, hw, engvars>>

hex3Call ==
    /\ hpc = "in" /\ hw = 3
    /\ hout' = hex3(hn, hb, hoff)
    /\ hpc' = "done"
    /\ UNCHANGED <<hn, hb, hoff, hw, engvars>>

hex4Call ==
    /\ hpc = "in" /\ hw = 4
    /\ hout' = hex4(hn, hb, hoff)
    /\ hpc' = "done"
    /\ UNCHANGED <<hn, hb, hoff, hw, engvars>>

HexNext == hex1Call \/ hex2Call \/ hex3Call \/ hex4Call

InitHex == HexInit /\ EngInit /\ ScopeReady

SpecHex == InitHex /\ [][HexNext]_vars

(***************************************************************************)
(* Properties                                                              *)
(***************************************************************************)

\* C1: in each of call, callWait and callCr, a write that returns a count
\* below len(b) without an error is followed by no read, and the function
\* returns the IncompleteWrite error.
C1_ShortWriteFails ==
    wr = "short" =>
        /\ nreads = 0
        /\ pc = "ret" => err = IncompleteWrite

\* C2: callCr with cr >= 1 over a transport that never fails keeps reading
\* while the reads so far delivered fewer than cr CR bytes, and has returned
\* as soon as they delivered cr of them: the read before its last one had
\* not delivered the cr-th CR.  With cr = 5 and the reads delivering
\* ScenarioChunks it is still reading after the first three and has
\* returned, with all of S11, after the fourth.
C2_CompletesAtNthCR ==
    (fn = "callCr" /\ cr >= 1 /\ wr = "full" /\ nfail = 0) =>
        /\ pc \in {"read", "ret"}
        /\ pc = "read" => CountCR(delivered) < cr
        /\ pc = "ret" =>
            /\ nreads >= 1
            /\ CountCR(delivered) >= cr
            /\ CountCR(Take(delivered, Len(delivered) - Len(chunk))) < cr
        /\ (cr = 5 /\ scen \in 1..3) => (pc = "read" /\ nreads = scen)
        /\ (cr = 5 /\ scen = 4) => (pc = "ret" /\ nreads = 4 /\ res = S11)

C2_Witness ==
    /\ fn = "callCr" /\ cr = 5 /\ wr = "full" /\ nfail = 0
    /\ scen = 4 /\ pc = "ret" /\ nreads = 4

\* C3: after a write that returned no error, call and callWait have a read
\* to issue that can always be taken, issue exactly one, and return what
\* that read delivered, zero bytes included.
C3_ExactlyOneRead ==
    (fn \in {"call", "callWait"} /\ wr \in {"full", "short"}) =>
        /\ pc \in {"read", "ret"}
        /\ pc = "read" => (nreads = 0 /\ ENABLED (callRead \/ callWaitRead))
        /\ pc = "ret" => (nreads = 1 /\ res = chunk /\ nwr = 1)

C3_Witness ==
    /\ fn \in {"call", "callWait"} /\ wr = "full" /\ pc = "ret"
    /\ nreads = 1 /\ err = Nil /\ res = <<>> /\ avail = <<>>

\* the ASCII hex decoder the round trip is stated with
HexVal(c) == CHOOSE i \in 0..15 : H(i) = c

Decoded(buf, off, w) ==
    [i \in 1..UintNibbles |->
        IF i <= 2 * w
        THEN IF (i - 1) % 2 = 0
             THEN HexVal(At(buf, off + 3 * ((i - 1) \div 2) + 1))
             ELSE HexVal(At(buf, off + 3 * ((i - 1) \div 2)))
        ELSE 0]

InRange(v, w) == \A i \in 1..UintNibbles : i > 2 * w => v[i] = 0

\* C4: for every width w and every value below 2^(8w), the digit pairs the
\* encoder wrote at offset+3k, offset+3k+1, decoded with pair k as byte k,
\* give back the value.
C4_RoundTrip ==
    (hpc = "done" /\ InRange(hn, hw)) => Decoded(hout, hoff, hw) = hn

\* C5: hex2 of 0x1A2B into "2e@0000s" at offset 3 gives "2e@1a2bs".
C5_Scenario ==
    (hpc = "done" /\ hw = 2 /\ hn = x1a2b /\ hb = C5_Template /\ hoff = 3) =>
        hout = <<"2","e","@","1","a","2","b","s">>

\* C5, amended: hex2 of 0x1A2B at offset 3 writes the low byte "2b" at 3, 4
\* and the high byte "1a" at 6, 7: "2e@0000s" becomes "2e@2b01a", and the
\* template of the source, "2e@00z00s", becomes "2e@2bz1as".
C5_ScenarioLowByteFirst ==
    (hpc = "done" /\ hw = 2 /\ hn = x1a2b /\ hoff = 3) =>
        /\ hb = C5_Template => hout = <<"2","e","@","2","b","0","1","a">>
        /\ hb = T_2e => hout = <<"2","e","@","2","b","z","1","a","s">>

C5_Witness ==
    hpc = "done" /\ hw = 2 /\ hn = x1a2b /\ hb = C5_Template /\ hoff = 3

\* the positions encoder w may write to
Window(off, w) == UNION {{off + 3 * k, off + 3 * k + 1} : k \in 0..(w - 1)}

\* C6: an encoder changes no byte outside the digit positions offset+3k and
\* offset+3k+1, k < w, and not the length of the buffer.
C6_Frame ==
    hpc = "done" =>
        /\ Len(hout) = Len(hb)
        /\ \A i \in 0..(Len(hb) - 1) :
            i \notin Window(hoff, hw) => At(hout, i) = At(hb, i)

C6_Witness ==
    hpc = "done" /\ hw = 4 /\ hb = T_22 /\ hoff = 3 /\ hout # hb

\* C7: the buffer Horizontal, TriggerLogic and TriggerTiming hand to the
\* transport is the concatenation, in argument order, of each unit encoded
\* on its own template at offset 3.
C7_Concatenation ==
    sent # <<>> =>
        /\ op = "Horizontal" =>
            sent = <<hex2(args[1], T_14, 3) \o hex2(args[2], T_2e, 3)>>
        /\ op = "TriggerLogic" =>
            sent = <<hex1(args[1], T_05, 3) \o hex1(args[2], T_06, 3)>>
        /\ op = "TriggerTiming" =>
            sent = <<hex2(args[1], T_32, 3) \o hex2(args[2], T_34, 3)
                     \o hex2(args[3], T_2c, 3)>>

C7_Witness ==
    /\ op = "TriggerTiming" /\ sent # <<>>
    /\ args[1] # args[2] /\ args[2] # args[3]

\* C8: once a read of callCr has failed the function has returned, with the
\* error and with exactly the bytes its earlier reads delivered, in order;
\* it issued one write and no read after the failed one.
C8_ReadFailure ==
    (fn = "callCr" /\ nfail > 0) =>
        /\ pc = "ret"
        /\ nfail = 1
        /\ nwr = 1
        /\ err = EIO
        /\ res = delivered
        /\ chunk = <<>>

C8_Witness ==
    fn = "callCr" /\ nfail = 1 /\ pc = "ret" /\ nreads >= 3 /\ Len(res) >= 2

\* C9: what callWait returns after a read without error is never longer than
\* maxBytes, and is all of the bytes that were available to the read when
\* there were at most maxBytes of them.
C9_BoundedByMaxBytes ==
    (fn = "callWait" /\ pc = "ret" /\ nreads = 1 /\ err = Nil) =>
        /\ Len(res) <= maxBytes
        /\ Len(avail) <= maxBytes => res = avail

\* C10: no two transport writes follow each other without a read between.
C10_Alternation ==
    ~(prev.k = "W" /\ last.k = "W")

\* C10, amended: a write follows another write without a read between them
\* only when the earlier write ended its call: it returned an error or, in
\* callCr, a short count.
C10_AlternationUnlessWriteFailed ==
    (prev.k = "W" /\ last.k = "W") =>
        \/ prev.wr = "err"
        \/ prev.fn = "callCr" /\ prev.wr = "short"

C10_Witness ==
    /\ op = "Dump" /\ Len(sent) = 4
    /\ prev.k = "R" /\ last.k = "W" /\ last.fn = "callWait"


\* C11: against an instrument that answers every '?' with the echo and its
\* identity, an Id call made after Reset whose write and read succeed and
\* whose read returns bytes returns exactly the identity.
C11_IdAfterReset ==
    (op = "Id" /\ pc = "ret" /\ wasReset /\ wr = "full" /\ err = Nil /\ res # <<>>)
        => IdString(res, err) = inst

Supported(id) == HasPrefix(id, P_BS0010) \/ HasPrefix(id, P_BS0005)

C12_HandleAndModel ==
    (pc = "idle")
        => /\ tty = "open" <=> Supported(ID)
           /\ Model = "bs10" <=> HasPrefix(ID, P_BS0010)
           /\ Model = "bs05" <=> (~HasPrefix(ID, P_BS0010) /\ HasPrefix(ID, P_BS0005))
           /\ Model \in {"bs10", "bs05", ""}

C12_OpenStep ==
    (op = "Open" /\ op' = "none")
        => /\ out'.err = Nil <=> Supported(ID')
           /\ out'.err # Nil => tty' = "closed"

\* C12: Open returns a Scope exactly when the identity it obtained begins
\* with BS0010 (Model bs10) or BS0005 (Model bs05); otherwise it returns an
\* error and the serial handle is closed.
C12_OpenIffSupported == [] C12_HandleAndModel /\ [][C12_OpenStep]_vars

C12_Witness ==
    /\ pc = "idle"
    /\ out.err = UnsupportedModelID
    /\ ID = IdOther
    /\ tty = "closed"

\* C13: while callCr reads and when it returns without an error, its
\* response is the concatenation, in the order of the reads, of the chunks
\* the reads returned, and a response returned without an error holds at
\* least cr CR bytes.
C13_ResponseIsAllChunks ==
    /\ (fn = "callCr" /\ pc \in {"read", "ret"} /\ nfail = 0) => res = delivered
    /\ (fn = "callCr" /\ pc = "ret" /\ err = Nil) =>
            (res = delivered /\ CountCR(res) >= cr)

C13_Witness ==
    /\ fn = "callCr" /\ pc = "ret" /\ err = Nil /\ cr = 5
    /\ nreads >= 5 /\ res = S11

C14_Returns ==
    (fn = "callCr" /\ pc = "read" /\ CountCR(res \o rx) >= cr) ~> (pc = "ret")

C14_Exits ==
    (fn = "callCr" /\ pc = "read" /\ last' = EvRead)
        => IF nfail' # nfail \/ CountCR(delivered') >= cr
           THEN pc' = "ret"
           ELSE pc' = "read"

\* C14: once the write of callCr has succeeded and the transport has
\* delivered the cr-th CR byte to the receive queue, callCr returns; a read
\* of its loop ends the loop exactly when it reports an error or brings the
\* CR count of the bytes read to cr, and every other read is followed by
\* another read, without limit.
C14_Terminates == C14_Returns /\ [][C14_Exits]_vars

C14_Witness ==
    /\ fn = "callCr" /\ pc = "ret" /\ err = Nil /\ cr = 5
    /\ nreads = MaxReads /\ chunk # <<>> /\ CountCR(res) >= 5

\* v mod 2^(8w)
ModWidth(v, w) == [i \in 1..UintNibbles |-> IF i <= 2 * w THEN v[i] ELSE 0]

HexW(w, v, buf, off) ==
    CASE w = 1 -> hex1(v, buf, off)
      [] w = 2 -> hex2(v, buf, off)
      [] w = 3 -> hex3(v, buf, off)
      [] w = 4 -> hex4(v, buf, off)

LowerHexDigits ==
    {"0","1","2","3","4","5","6","7","8","9","a","b","c","d","e","f"}

\* C15: for every width w and every value v, values of 2^(8w) and more
\* included, the encoder leaves the buffer as it does for v mod 2^(8w), and
\* every character it wrote is a lower-case hex digit.
C15_MaskedToWidth ==
    (hpc = "done") =>
        /\ hout = HexW(hw, ModWidth(hn, hw), hb, hoff)
        /\ \A k \in 0..(hw - 1) :
              /\ At(hout, hoff + 3 * k) \in LowerHexDigits
              /\ At(hout, hoff + 3 * k + 1) \in LowerHexDigits

C15_Witness ==
    /\ hpc = "done" /\ hw = 4
    /\ hn = [i \in 1..UintNibbles |-> 15]
    /\ hb = T_22 /\ hoff = 3
    /\ hout = <<"2","2","@","f","f","z","f","f","z","f","f","z","0","f","s">>

\* the register a register-write command starts with
FirstReg(buf) ==
    IF Head(buf) = "[" THEN <<buf[2], buf[3]>> ELSE <<buf[1], buf[2]>>

\* the registers Trace writes, in the order it writes them: mode, delay,
\* pre-trigger, post-trigger, trigger, start address
TraceRegs ==
    <<<<"7","b">>, <<"7","c">>, <<"3","7">>, <<"3","1">>, <<"2","1">>,
      <<"2","2">>, <<"2","6">>, <<"2","a">>,
      <<"0","6">>, <<"0","5">>, <<"4","4">>, <<"6","8">>, <<"0","7">>, <<"3","a">>,
      <<"0","8">>>>

C16_Order ==
    (op = "Trace") =>
        /\ Len(sent) + Len(todo) <= Len(TraceRegs) + 3
        /\ \A i \in 1..Len(sent) :
              /\ i <= Len(TraceRegs) =>
                    /\ FirstReg(sent[i]) = TraceRegs[i]
                    /\ sent[i][Len(sent[i])] = "s"
                    /\ \A j \in 1..Len(sent[i]) : sent[i][j] \notin {">", "U", "D"}
              /\ i = Len(TraceRegs) + 1 => sent[i] = <<">">>
              /\ i = Len(TraceRegs) + 2 => sent[i] = <<"U">>
              /\ i = Len(TraceRegs) + 3 => sent[i] = <<"D">>
        /\ fn = "callCr" <=> todo = <<>>
        /\ fn = "callCr" => (cmd = <<"D">> /\ cr = 5)
        /\ fn \in {"call", "callCr"}

C16_Returns ==
    (op = "Trace" /\ op' = "none")
        => /\ fn = "callCr" /\ cmd = <<"D">> /\ Len(sent) <= Len(TraceRegs) + 3
           /\ out' = [res |-> res, err |-> err]

\* C16: Trace writes its register commands (mode, delay 22, pre-trigger 26,
\* post-trigger 2a, trigger, start address) in one fixed order, then '>',
\* then 'U', then 'D'; 'D' is the last command and the only one submitted
\* with callCr, with 5 CRs; Trace returns the bytes and the error of that
\* callCr.
C16_FixedOrder == [] C16_Order /\ [][C16_Returns]_vars

C16_Witness ==
    /\ op = "Trace" /\ pc = "ret" /\ todo = <<>> /\ err = Nil
    /\ Len(sent) = 18 /\ res = S11
    /\ sent[6] = <<"2","2","@","f","f","z","f","f","z","f","f","z","0","f","s">>

Bit(x) == IF x THEN 1 ELSE 0

C17_Mode ==
    (op = "TriggerMode") =>
        /\ cmd = <<"0", "7", "@",
                   H(2 * Bit(args[1]) + Bit(args[2])),
                   H(4 * Bit(lastSrc = ToUint(98)) + Bit(args[3])),
                   "s">>
        /\ fn = "call"
        /\ sent \in {<<>>, <<cmd>>}

C17_Frame ==
    (trigSrc' # trigSrc) => (op = "none" /\ op' = "Trigger" /\ trigSrc' = args'[1])

\* C17: the value TriggerMode(mod, edge, comp) writes to register 07 has bit
\* 0x20 set iff mod, 0x10 iff edge, 0x01 iff comp, 0x04 iff the src of the
\* latest Trigger call was 'b' (clear when there was none) and no other bit;
\* only Trigger changes the stored trigger source.
C17_TriggerModeBits == [] C17_Mode /\ [][C17_Frame]_vars

C17_Witness ==
    /\ op = "TriggerMode" /\ pc = "ret" /\ wr = "full"
    /\ args = <<TRUE, FALSE, TRUE>> /\ lastSrc = ToUint(98)
    /\ sent = << <<"0","7","@","2","5","s">> >>

\* the requested range is above 11 V
Above11(rng) ==
    \/ RangeValue(rng).inf = 1
    \/ /\ ~RangeValue(rng).nan
       /\ RangeValue(rng).inf = 0
       /\ RangeValue(rng).val > 11000000

\* two register-write units, of register 64 and of register 66
TwoUnits(buf) ==
    /\ Len(buf) = 18
    /\ SubSeq(buf, 1, 3) = <<"6","4","@">>
    /\ SubSeq(buf, 10, 12) = <<"6","6","@">>
    /\ buf[9] = "s" /\ buf[18] = "s"
    /\ \A i \in {4, 5, 7, 8, 13, 14, 16, 17} : buf[i] \in LowerHexDigits

\* what Vertical does when refused is what decides between its two ways
VerticalDoes(refused) ==
    IF refused
    THEN /\ VerticalCmd(Model, args[1]).err # Nil
         /\ pc = "ret" /\ fn = "none" /\ sent = <<>> /\ nwr = 0
    ELSE /\ VerticalCmd(Model, args[1]).err = Nil
         /\ fn = "call" /\ TwoUnits(cmd)
         /\ sent \in {<<>>, <<cmd>>}
         /\ pc = "ret" => (sent = <<cmd>> /\ nwr = 1)

C18_State ==
    (op = "Vertical") =>
        VerticalDoes(\/ Model \notin {"bs10", "bs05"}
                     \/ Above11(args[1])
                     \/ RangeValue(args[1]).nan)

C18_Return ==
    (op = "Vertical" /\ op' = "none")
        => /\ out'.err # Nil <=> sent = <<>>
           /\ out'.err = UnsupportedModel <=> Model \notin {"bs10", "bs05"}
           /\ out'.res = <<>>

====
